---- MODULE Spec2Model ----
(***************************************************************************)
(* Model of brainrender.animation.video.BasicVideoMaker and of the opencv  *)
(* helpers of brainrender.animation.video_utils that it calls.             *)
(*                                                                         *)
(* One session object (self) is modelled together with the part of the     *)
(* process state its methods touch: the working directory, the files at    *)
(* the output paths and the temporary frame directories.  make_video is    *)
(* a blocking, sequential call; pc is its position.                        *)
(*                                                                         *)
(* Python strings are sequences of one-character strings, so that          *)
(* str.replace, str.lower, "x in s" and "+" are computed as Python does.   *)
(* None is the empty tuple and a present optional value v is <<v>>.        *)
(***************************************************************************)
EXTENDS Integers, Sequences, FiniteSets, TLC

\* ------------------------------------------------------------------ bounds
\* largest niters passed to a constructor or to make_video
MaxNiters == 2
\* number of make_video calls on the session
MaxBuilds == 2
\* ----------------------------------------------------------------- strings
DOT == "."
SEP == "/"
MP4 == <<"m", "p", "4">>
AVI == <<"a", "v", "i">>
MOV == <<"m", "o", "v">>
DOTMP4 == <<".", "m", "p", "4">>
MP4V == <<"m", "p", "4", "v">>

\* the folders and names the calls use; HOME is where the process starts
HOME == <<"/", "h">>
VID == <<"/", "v">>
OUT == <<"/", "o">>
NAME_A == <<"a">>
NAME_B == <<"b">>

None == <<>>

\* s.replace(old, new) for a one-character old
RECURSIVE StrReplace(_, _, _)
StrReplace(s, old, new) ==
    IF s = <<>> THEN <<>>
    ELSE (IF Head(s) = old THEN new ELSE <<Head(s)>>) \o StrReplace(Tail(s), old, new)

\* sub in s
StrIn(sub, s) ==
    \E i \in 1..(Len(s) - Len(sub) + 1) : SubSeq(s, i, i + Len(sub) - 1) = sub

\* s.lower(), for the letters the answers use
LowerChar(c) ==
    IF c = "Y" THEN "y" ELSE IF c = "N" THEN "n" ELSE IF c = "Q" THEN "q" ELSE c

\* mutant: the answer is compared as typed
StrLower_as_typed(s) == s

StrLower(s) == [k \in 1..Len(s) |-> LowerChar(s[k])]

\* os.path.join(a, b) for a relative b
PathJoin(a, b) == a \o <<SEP>> \o b

\* kwargs.pop(key, default)
Pop(kwargs, key, default) == IF key \in DOMAIN kwargs THEN kwargs[key] ELSE default

\* ------------------------------------------------------------------- state
VARIABLES
    save_fld, save_name, video_format, duration, niters, fps,
    complete_save_path,
    tmp_dir,      \* self.tmp_dir: number of the TemporaryDirectory, 0 before the first build
    frames,       \* self.frames: sequence of frame paths <<directory, number>>
    cwd,          \* os.getcwd()
    files,        \* the video files on disk: path -> sequence of frames written
    tmpfs,        \* the temporary directories on disk: number -> set of frame files in it
    scene,        \* calls received by the scene during the current make_video
    pc,           \* position in make_video
    kw,           \* **kwargs of the current make_video call
    curdir,       \* local curdir of make_video
    yn,           \* local yn of make_video
    i,            \* loop index of make_frames
    cap,          \* the cv2.VideoCapture of close()
    writer,       \* the cv2.VideoWriter of save_videocap_to_video
    outcome,      \* how the current make_video ended
    old,          \* the session and process state when make_video was called
    nbuilds       \* make_video calls so far

config == <<save_fld, save_name, video_format, duration, niters, fps, complete_save_path>>
session == <<tmp_dir, frames>>
process == <<cwd, files, tmpfs, scene>>
locals == <<kw, curdir, yn, i, cap, writer, outcome, old>>
vars == <<config, session, process, locals, pc, nbuilds>>

\* ------------------------------------------------------------------ inputs
Options == {"save_fld", "save_name", "video_format", "duration", "niters", "fps"}

\* the values a call may give to each option
FullKwargs ==
    [save_fld : {OUT}, save_name : {NAME_B},
     video_format : {DOTMP4, AVI, MOV, MP4V},
     duration : {<<0>>, <<2>>},
     niters : 0..MaxNiters,
     fps : {5}]

\* the options one call supplies: none, any one, or duration with fps or with niters
Supplied ==
    {{}} \cup {{o} : o \in Options} \cup {{"duration", "fps"}, {"duration", "niters"}}

CallKwargs == {[o \in S |-> full[o]] : full \in FullKwargs, S \in Supplied}

NoKwargs == [o \in {} |-> 0]

\* the constructor is always given niters; the other options take their defaults
CtorKwargs == {[niters |-> n] : n \in 1..MaxNiters}

\* what the user may type at the overwrite prompt
Answers == {<<"y">>, <<"Y">>, <<"n">>, <<"N">>, <<"q">>, <<>>}

\* content of a video file that is on disk before the session starts
OldVideo == <<"old">>

NoCap == [state |-> "none", folder |-> 0, pos |-> 0]
NoWriter == [state |-> "none", path |-> <<>>, fourcc |-> "", framerate |-> 0, nframes |-> 0]
NoScene == [renders |-> 0, rotations |-> 0]
NoOld ==
    [save_fld |-> <<>>, save_name |-> <<>>, video_format |-> <<>>, duration |-> None,
     niters |-> 0, fps |-> 0, frames |-> <<>>, cwd |-> <<>>,
     files |-> NoKwargs, tmpfs |-> NoKwargs]

\* -------------------------------------------------------------- __init__
\* defaults of BasicVideoMaker.__init__
DefaultDuration == 3
DefaultNiters == 60
DefaultFps == 30

\* scene.output_videos and the timestamp-derived default name
SceneOutputVideos == VID
DefaultSaveName == NAME_A

Construct(kwargs) ==
    /\ save_fld = Pop(kwargs, "save_fld", SceneOutputVideos)
    /\ save_name = Pop(kwargs, "save_name", DefaultSaveName)
    /\ video_format = Pop(kwargs, "video_format", MP4)
    /\ duration = Pop(kwargs, "duration", <<DefaultDuration>>)
    /\ niters = Pop(kwargs, "niters", DefaultNiters)
    /\ fps = Pop(kwargs, "fps", DefaultFps)

Init ==
    /\ \E kwargs \in CtorKwargs : Construct(kwargs)
    /\ complete_save_path = <<>>
    /\ tmp_dir = 0
    /\ frames = <<>>
    /\ cwd = HOME
    /\ \E fs \in {NoKwargs, [p \in {PathJoin(VID, NAME_A \o <<DOT>> \o MP4)} |-> OldVideo]} :
          files = fs
    /\ tmpfs = NoKwargs
    /\ scene = NoScene
    /\ pc = "idle"
    /\ kw = NoKwargs
    /\ curdir = <<>>
    /\ yn = <<>>
    /\ i = 0
    /\ cap = NoCap
    /\ writer = NoWriter
    /\ outcome = "none"
    /\ old = NoOld
    /\ nbuilds = 0

\* ---------------------------------------------------------- parse_kwargs
\* the configuration parse_kwargs(**kwargs) leaves in self
parse_kwargs(kwargs) ==
    LET fld == Pop(kwargs, "save_fld", save_fld)
        name == Pop(kwargs, "save_name", save_name)
        fmt == Pop(kwargs, "video_format", video_format)
        \* the value of self.video_format.replace(".", ""), which line 55 drops
        replaced == StrReplace(fmt, DOT, <<>>)
    IN  [save_fld |-> fld,
         save_name |-> name,
         video_format |-> fmt,
         duration |-> Pop(kwargs, "duration", None),
         niters |-> Pop(kwargs, "niters", niters),
         fps |-> Pop(kwargs, "fps", fps),
         complete_save_path |-> PathJoin(fld, name \o <<DOT>> \o fmt)]

\* make_video is called: line 122
MakeVideo ==
    /\ pc = "idle"
    /\ nbuilds < MaxBuilds
    /\ \E kwargs \in CallKwargs :
          LET c == parse_kwargs(kwargs)
          IN  /\ kw' = kwargs
              /\ save_fld' = c.save_fld
              /\ save_name' = c.save_name
              /\ video_format' = c.video_format
              /\ duration' = c.duration
              /\ niters' = c.niters
              /\ fps' = c.fps
              /\ complete_save_path' = c.complete_save_path
    /\ old' = [save_fld |-> save_fld, save_name |-> save_name,
               video_format |-> video_format, duration |-> duration,
               niters |-> niters, fps |-> fps, frames |-> frames, cwd |-> cwd,
               files |-> files, tmpfs |-> tmpfs]
    /\ nbuilds' = nbuilds + 1
    /\ scene' = NoScene
    /\ outcome' = "none"
    /\ pc' = "configured"
    /\ UNCHANGED <<session, cwd, files, tmpfs, curdir, yn, i, cap, writer>>

\* ------------------------------------------- initialize_video_creation
\* TemporaryDirectory() makes a new empty directory; rebinding self.tmp_dir drops the
\* last reference to the previous one, whose finalizer removes it if it is still there
\* mutant: self.frames is not emptied
initialize_video_creation_keeps_frames ==
    /\ pc = "configured"
    /\ tmp_dir' = nbuilds
    /\ tmpfs' = [d \in (DOMAIN tmpfs \ {tmp_dir}) \cup {nbuilds} |->
                    IF d = nbuilds THEN {} ELSE tmpfs[d]]
    /\ frames' = frames
    /\ pc' = "chdir"
    /\ UNCHANGED <<config, cwd, files, scene, locals, nbuilds>>

initialize_video_creation ==
    /\ pc = "configured"
    /\ tmp_dir' = nbuilds
    /\ tmpfs' = [d \in (DOMAIN tmpfs \ {tmp_dir}) \cup {nbuilds} |->
                    IF d = nbuilds THEN {} ELSE tmpfs[d]]
    /\ frames' = <<>>
    /\ pc' = "chdir"
    /\ UNCHANGED <<config, cwd, files, scene, locals, nbuilds>>

\* lines 125-126
Chdir ==
    /\ pc = "chdir"
    /\ curdir' = cwd
    /\ cwd' = save_fld
    /\ pc' = "check"
    /\ UNCHANGED <<config, session, files, tmpfs, scene, kw, yn, i, cap, writer, outcome,
                   old, nbuilds>>

\* mutant: the first render pass runs before the file check
CheckExists_after_render ==
    /\ pc = "check"
    /\ pc' = IF complete_save_path \in DOMAIN files THEN "prompt" ELSE "validate"
    /\ yn' = <<>>
    /\ scene' = [scene EXCEPT !.renders = @ + 1]
    /\ UNCHANGED <<config, session, cwd, files, tmpfs, kw, curdir, i, cap, writer, outcome,
                   old, nbuilds>>

\* lines 130-132
CheckExists ==
    /\ pc = "check"
    /\ pc' = IF complete_save_path \in DOMAIN files THEN "prompt" ELSE "validate"
    /\ yn' = <<>>
    /\ UNCHANGED <<config, session, process, kw, curdir, i, cap, writer, outcome, old,
                   nbuilds>>

\* lines 133-137: one pass of the while loop
Prompt ==
    /\ pc = "prompt"
    /\ StrLower(yn) # <<"y">>
    /\ \E answer \in Answers :
          /\ yn' = answer
          /\ IF StrLower(answer) = <<"n">>
             THEN pc' = "done" /\ outcome' = "declined"
             ELSE /\ pc' = IF StrLower(answer) # <<"y">> THEN "prompt" ELSE "validate"
                  /\ UNCHANGED outcome
    /\ UNCHANGED <<config, session, process, kw, curdir, i, cap, writer, old, nbuilds>>

\* line 139
FormatSupported(fmt) == ~(~StrIn(MP4, fmt) /\ ~StrIn(AVI, fmt))

Validate ==
    /\ pc = "validate"
    /\ IF FormatSupported(video_format)
       THEN pc' = "render" /\ UNCHANGED outcome
       ELSE pc' = "done" /\ outcome' = "ValueError: format"
    /\ UNCHANGED <<config, session, process, kw, curdir, yn, i, cap, writer, old, nbuilds>>

\* line 146: scene.render(interactive=False, verbose=False)
RenderFirst ==
    /\ pc = "render"
    /\ scene' = [scene EXCEPT !.renders = @ + 1]
    /\ i' = 0
    /\ pc' = "frames"
    /\ UNCHANGED <<config, session, cwd, files, tmpfs, kw, curdir, yn, cap, writer, outcome,
                   old, nbuilds>>

\* ------------------------------------------------- make_frames, add_frame
\* lines 67-70: the path of the next frame
FramePath == <<tmp_dir, Len(frames)>>

\* lines 82-92: one iteration of the loop over range(self.niters)
MakeFrame ==
    /\ pc = "frames"
    /\ i < niters
    /\ scene' = [renders |-> scene.renders + 1, rotations |-> scene.rotations + 1]
    /\ tmpfs' = [tmpfs EXCEPT ![FramePath[1]] = @ \cup {FramePath[2]}]
    /\ frames' = Append(frames, FramePath)
    /\ i' = i + 1
    /\ UNCHANGED <<config, tmp_dir, cwd, files, kw, curdir, yn, cap, writer, outcome, old, pc,
                   nbuilds>>

\* the loop of make_frames ends and make_video calls close(): line 152
FramesDone ==
    /\ pc = "frames"
    /\ ~(i < niters)
    /\ pc' = "close"
    /\ UNCHANGED <<config, session, process, locals, nbuilds>>

\* ------------------------------------------------------------------ close
\* lines 96-100: np.floor(len(self.frames) / float(self.duration)), or int(self.fps)
\* mutant: the duration is ignored
ResolveFps_ignores_duration(dur, nframes, rate) == rate

ResolveFps(dur, nframes, rate) ==
    IF dur # None THEN nframes \div dur[1] ELSE rate

CloseFps ==
    /\ pc = "close"
    /\ IF duration # None /\ duration[1] = 0
       THEN pc' = "done" /\ outcome' = "ZeroDivisionError" /\ UNCHANGED fps
       ELSE /\ fps' = ResolveFps(duration, Len(frames), fps)
            /\ pc' = "get_cap"
            /\ UNCHANGED outcome
    /\ UNCHANGED <<save_fld, save_name, video_format, duration, niters, complete_save_path,
                   session, process, kw, curdir, yn, i, cap, writer, old, nbuilds>>

\* ------------------------------------------------------------ video_utils
\* cap.set(1, frame_number)
cap_set_frame(c, frame_number) == [c EXCEPT !.pos = frame_number]

\* cap.read() on the image sequence "%1d.png" of a folder: the frame at the position,
\* if its file is there
CapRead(c) ==
    LET ret == c.folder \in DOMAIN tmpfs /\ c.pos \in tmpfs[c.folder]
    IN  [ret |-> ret, frame |-> c.pos, cap |-> IF ret THEN [c EXCEPT !.pos = @ + 1] ELSE c]

\* lines 33-43
get_cap_selected_frame(c, show_frame) == CapRead(cap_set_frame(c, show_frame))

\* mutant: the reader is not set back to frame 0
get_video_params_no_reset(c) ==
    LET r == get_cap_selected_frame(c, 0)
    IN  [cap |-> r.cap, nframes |-> Cardinality(tmpfs[c.folder])]

\* lines 46-63: the reader after the call and the frame count it reports
get_video_params(c) ==
    LET r == get_cap_selected_frame(c, 0)
    IN  [cap |-> cap_set_frame(r.cap, 0), nframes |-> Cardinality(tmpfs[c.folder])]

\* lines 85-100: the reader, or the error raised
get_cap_from_images_folder(folder) ==
    IF folder \notin DOMAIN tmpfs THEN [error |-> "ValueError: no folder", cap |-> NoCap]
    ELSE IF tmpfs[folder] = {} THEN [error |-> "ValueError: empty folder", cap |-> NoCap]
    ELSE LET r == CapRead([state |-> "open", folder |-> folder, pos |-> 0])
         IN  IF ~r.ret THEN [error |-> "ValueError: cannot read", cap |-> NoCap]
             ELSE [error |-> "none", cap |-> cap_set_frame(r.cap, 0)]

\* line 104
GetCap ==
    /\ pc = "get_cap"
    /\ LET r == get_cap_from_images_folder(tmp_dir)
       IN  IF r.error = "none"
           THEN cap' = r.cap /\ pc' = "params" /\ UNCHANGED outcome
           ELSE pc' = "done" /\ outcome' = r.error /\ UNCHANGED cap
    /\ UNCHANGED <<config, session, process, kw, curdir, yn, i, writer, old, nbuilds>>

\* save_videocap_to_video, lines 110-112
VideoParams ==
    /\ pc = "params"
    /\ LET p == get_video_params(cap)
       IN  /\ cap' = p.cap
           /\ writer' = [NoWriter EXCEPT !.nframes = p.nframes]
    /\ pc' = "open_writer"
    /\ UNCHANGED <<config, session, process, kw, curdir, yn, i, outcome, old, nbuilds>>

\* line 110: the container tag save_videocap_to_video hands to open_cvwriter
WriterFormat(fmt) == IF ~StrIn(<<DOT>>, fmt) THEN <<DOT>> \o fmt ELSE fmt

\* lines 16-19
Fourcc(format) == IF StrIn(AVI, format) THEN "MJPG" ELSE "mp4v"

\* lines 5-24, called at line 113: the sink is created, or ValueError is raised
OpenWriter ==
    /\ pc = "open_writer"
    /\ \E created \in BOOLEAN :
          IF created
          THEN /\ writer' = [writer EXCEPT !.state = "open", !.path = complete_save_path,
                                !.fourcc = Fourcc(WriterFormat(video_format)),
                                !.framerate = fps]
               /\ files' = [p \in DOMAIN files \cup {complete_save_path} |->
                               IF p = complete_save_path THEN <<>> ELSE files[p]]
               /\ pc' = "copy"
               /\ UNCHANGED outcome
          ELSE /\ pc' = "done"
               /\ outcome' = "ValueError: writer"
               /\ UNCHANGED <<writer, files>>
    /\ UNCHANGED <<config, session, cwd, tmpfs, scene, kw, curdir, yn, i, cap, old, nbuilds>>

\* lines 116-120: one pass of the copy loop
CopyFrame ==
    /\ pc = "copy"
    /\ LET r == CapRead(cap)
       IN  /\ cap' = r.cap
           /\ IF r.ret
              THEN files' = [files EXCEPT ![writer.path] = Append(@, r.frame)] /\ pc' = "copy"
              ELSE UNCHANGED files /\ pc' = "release"
    /\ UNCHANGED <<config, session, cwd, tmpfs, scene, kw, curdir, yn, i, writer, outcome, old,
                   nbuilds>>

\* lines 123-124
Release ==
    /\ pc = "release"
    /\ cap' = [cap EXCEPT !.state = "released"]
    /\ writer' = [writer EXCEPT !.state = "released"]
    /\ pc' = "cleanup"
    /\ UNCHANGED <<config, session, process, kw, curdir, yn, i, outcome, old, nbuilds>>

\* mutant: the temporary directory is not removed
Cleanup_skipped ==
    /\ pc = "cleanup"
    /\ pc' = "done"
    /\ outcome' = "completed"
    /\ UNCHANGED <<config, session, process, kw, curdir, yn, i, cap, writer, old, nbuilds>>

\* close, lines 108-110: self.tmp_dir.cleanup()
Cleanup ==
    /\ pc = "cleanup"
    /\ tmpfs' = [d \in DOMAIN tmpfs \ {tmp_dir} |-> tmpfs[d]]
    /\ pc' = "done"
    /\ outcome' = "completed"
    /\ UNCHANGED <<config, session, cwd, files, scene, kw, curdir, yn, i, cap, writer, old,
                   nbuilds>>

\* make_video returns or raises: its frame is gone
Return ==
    /\ pc = "done"
    /\ pc' = "idle"
    /\ kw' = NoKwargs
    /\ curdir' = <<>>
    /\ yn' = <<>>
    /\ i' = 0
    /\ cap' = NoCap
    /\ writer' = NoWriter
    /\ outcome' = "none"
    /\ old' = NoOld
    /\ scene' = NoScene
    /\ UNCHANGED <<config, session, cwd, files, tmpfs, nbuilds>>

Next ==
    \/ MakeVideo
    \/ initialize_video_creation
    \/ Chdir
    \/ CheckExists
    \/ Prompt
    \/ Validate
    \/ RenderFirst
    \/ MakeFrame
    \/ FramesDone
    \/ CloseFps
    \/ GetCap
    \/ VideoParams
    \/ OpenWriter
    \/ CopyFrame
    \/ Release
    \/ Cleanup
    \/ Return

Spec == Init /\ [][Next]_vars

\* ------------------------------------------------------------------ claims
DOTAVI == <<DOT>> \o AVI
AllowList == {MP4, AVI}
Affirmative == {<<"y">>, <<"Y">>}
Negative == {<<"n">>, <<"N">>}

\* the configuration of self, by option name
Option ==
    [save_fld |-> save_fld, save_name |-> save_name, video_format |-> video_format,
     duration |-> duration, niters |-> niters, fps |-> fps]

\* make_video has ended, either way
Exited == pc = "done"

\* the frame files 0 .. n-1 in playback order
FrameNumbers(n) == [k \in 1..n |-> k - 1]

\* the errors close() raises from the assembly
AssemblyErrors ==
    {"ValueError: no folder", "ValueError: empty folder", "ValueError: cannot read",
     "ValueError: writer"}

\* C1: when make_video exits, whatever its outcome, the working directory is the one
\* make_video was called in.
C1_CwdRestored == Exited => cwd = curdir

\* C2 as stated: after a negative answer to the overwrite prompt make_video has rendered
\* nothing, captured no frame, left the files as they were and created no directory.
C2_NoSideEffects ==
    (Exited /\ outcome = "declined") =>
        /\ scene = NoScene
        /\ frames = <<>>
        /\ files = old.files
        /\ DOMAIN tmpfs \subseteq DOMAIN old.tmpfs

\* C2 amended: after a negative answer make_video has rendered nothing, captured no frame
\* and left every video file as it was; what it has created is the new temporary frame
\* directory, which is empty and still on disk.
C2_DeclinedEffects ==
    (Exited /\ outcome = "declined") =>
        /\ scene = NoScene
        /\ frames = <<>>
        /\ files = old.files
        /\ DOMAIN tmpfs \ DOMAIN old.tmpfs = {tmp_dir}
        /\ tmpfs[tmp_dir] = {}

C2_Witness == Exited /\ outcome = "declined" /\ old.files # NoKwargs

\* C3: with a container format that is not exactly mp4 or avi, make_video renders nothing and
\* captures no frame, and it ends with the format error.
C3_UnsupportedFormatFails ==
    (pc # "idle" /\ video_format \notin AllowList) =>
        /\ scene = NoScene
        /\ (pc \notin {"configured"} => frames = <<>>)
        /\ (Exited => outcome = "ValueError: format")

\* C4: once the capture loop of a make_video is over, self.frames holds exactly the niters
\* of that call (the supplied one, else the one the session held), all of them frames of
\* this call's temporary directory, also on a second or later call.
C4_FrameCount ==
    (\/ pc \in {"close", "get_cap", "params", "open_writer", "copy", "release", "cleanup"}
     \/ Exited /\ outcome \in AssemblyErrors \cup {"completed", "ZeroDivisionError"}) =>
        /\ Len(frames) = IF "niters" \in DOMAIN kw THEN kw["niters"] ELSE old.niters
        /\ \A k \in 1..Len(frames) : frames[k] = <<tmp_dir, k - 1>>

C4_Witness ==
    /\ pc = "close"
    /\ nbuilds >= 2
    /\ old.frames # <<>>
    /\ frames # <<>>

\* C5: the frame rate the writer is opened with is floor(N / D) when the call supplies a
\* duration D (N frames captured), whether or not it supplies fps too, and is the
\* configured fps when the call supplies no duration.
C5_FrameRate ==
    writer.state # "none" =>
        writer.framerate =
            IF "duration" \in DOMAIN kw THEN Len(frames) \div kw["duration"][1]
            ELSE IF "fps" \in DOMAIN kw THEN kw["fps"]
            ELSE old.fps

C5_Witness ==
    /\ writer.state = "open"
    /\ {"duration", "fps"} \subseteq DOMAIN kw
    /\ Len(frames) = 1

\* C6: with N >= 1 frames captured the reader stands at frame 0 after the first-frame check
\* and the parameter query; the copy loop writes frames 0, 1, ... in order, each once; when
\* it ends the sink holds exactly the N frames, and reader and writer are then released.
C6_AssemblyRoundTrip ==
    /\ pc = "params" => cap.pos = 0
    /\ pc = "open_writer" => cap.pos = 0
    /\ pc = "copy" => /\ files[writer.path] = FrameNumbers(cap.pos)
                      /\ cap.pos <= Len(frames)
    /\ (pc \in {"release", "cleanup"} \/ outcome = "completed") =>
          /\ Len(frames) >= 1
          /\ files[writer.path] = FrameNumbers(Len(frames))
    /\ (pc = "cleanup" \/ outcome = "completed") =>
          cap.state = "released" /\ writer.state = "released"

C6_Witness == Exited /\ outcome = "completed" /\ Len(frames) >= 2

\* C7: after parse_kwargs every option the call does not supply has the value the session
\* held before the call.
C7_UnsuppliedKept ==
    pc = "configured" => \A o \in Options \ DOMAIN kw : Option[o] = old[o]

\* C8: a supplied format ".mp4" or ".avi" is stored without its leading dot, and the stored
\* path is folder, name, one dot and the format without its dot.
C8_FormatNormalized ==
    (pc = "configured" /\ "video_format" \in DOMAIN kw
        /\ kw["video_format"] \in {DOTMP4, DOTAVI}) =>
        /\ video_format = Tail(kw["video_format"])
        /\ complete_save_path =
              PathJoin(save_fld, save_name \o <<DOT>> \o Tail(kw["video_format"]))

\* the output file was there when make_video was called, and the call is past the check
TargetExisted ==
    /\ pc \notin {"idle", "configured", "chdir", "check"}
    /\ complete_save_path \in DOMAIN old.files

\* make_video has rendered, captured a frame or written a video file
BuildEffect ==
    \/ scene # NoScene
    \/ frames # <<>>
    \/ files # old.files

\* C9: at the overwrite prompt y or Y goes on with the build, n or N ends it, anything else
\* asks again; and when the output file existed, nothing is rendered, captured or written
\* unless the last answer was y or Y.
C9_OverwritePrompt ==
    [][/\ pc = "prompt" =>
            \/ yn' \in Affirmative /\ pc' = "validate"
            \/ yn' \in Negative /\ pc' = "done" /\ outcome' = "declined"
            \/ yn' \notin Affirmative \cup Negative /\ pc' = "prompt"
       /\ (TargetExisted' /\ BuildEffect') => yn' \in Affirmative]_vars

C9_Witness == TargetExisted /\ yn = <<"Y">> /\ scene.renders > 0 /\ files # old.files

\* C10: when make_video ends after a completed assembly its temporary directory is gone;
\* when it ends with an assembly error (no reader, or no sink) the directory is still on
\* disk with the captured frames in it.
C10_TmpLifecycle ==
    Exited =>
        /\ outcome = "completed" => tmp_dir \notin DOMAIN tmpfs
        /\ outcome \in AssemblyErrors =>
              /\ tmp_dir \in DOMAIN tmpfs
              /\ tmpfs[tmp_dir] = {frames[k][2] : k \in 1..Len(frames)}

C10_Witness == Exited /\ outcome = "ValueError: writer" /\ frames # <<>>

====
